---- MODULE Spec2Model ----
(***************************************************************************)
(* focstest: a doctest runner for OCaml homework.  This module models      *)
(* src/focstest.py: the REPL transcript parser (parse_error,               *)
(* run_ocaml_code), the text comparison (run_test and its normalization    *)
(* steps) and the test loop of main.                                       *)
(*                                                                         *)
(* A Python str is a sequence of one-character strings, so that find,      *)
(* rfind, split, strip and join are computed character by character.       *)
(* Positions are 0-based as in Python.                                     *)
(***************************************************************************)
EXTENDS Integers, Sequences, FiniteSets, TLC

VARIABLES
    call,           \* the function call under way: its name and arguments
    ret,            \* what that call returned or raised (NoRet before it ends)
    args,           \* main: the parsed command line (use_suites, skip_suites, verbose)
    test_suites,    \* main: list of (j, suite) pairs, line 352, re-bound at 371/376
    num_tests,      \* main: line 353
    num_failed,     \* main: line 362
    num_skipped,    \* main: line 363
    bound,          \* main: whether the locals test_str/function are bound (408-409)
    pc,             \* main: position of the control flow
    si,             \* main: position of the suite loop in test_suites (line 379)
    k,              \* main: index of the case loop, 0-based as enumerate (line 382)
    events,         \* history: how many run_test calls main made, how many were compared
    exit_status     \* main: -1 while running, else the exit status of the process

vars == <<call, ret, args, test_suites, num_tests, num_failed, num_skipped,
          bound, pc, si, k, events, exit_status>>

mainVars == <<args, test_suites, num_tests, num_failed, num_skipped,
              bound, pc, si, k, events, exit_status>>

----------------------------------------------------------------------------
(* Bounds of the model *)

\* longest string of the comparison inputs, in characters
MaxLen == 3
\* longest transcript/segment of the parser inputs, in pieces
MaxPieces == 4
\* most files preloaded by run_ocaml_code
MaxFiles == 1
\* most test suites found in the page
MaxSuites == 2
\* most test cases in one suite
MaxCases == 2
\* longest --use-suites / --skip-suites list
MaxSel == 2

----------------------------------------------------------------------------
(* Python str built-ins *)

\* what Python calls None, and the child process that never exits
None == <<"<None>">>
TimedOut == <<"<TimeoutExpired>">>

\* s[start:]
SliceFrom(s, start) == SubSeq(s, start + 1, Len(s))

\* s[start:end]
Slice(s, start, end) == SubSeq(s, start + 1, end)

\* s.startswith(sub, i)
MatchAt(s, sub, i) ==
    /\ i + Len(sub) <= Len(s)
    /\ \A n \in 1..Len(sub) : s[i + n] = sub[n]

\* the least and the greatest element of a non-empty set of integers
Min(S) == CHOOSE x \in S : \A y \in S : x <= y
Max(S) == CHOOSE x \in S : \A y \in S : x >= y

\* s.find(sub): the lowest index where sub occurs, -1 when it does not
find(s, sub) ==
    LET hits == {i \in 0..(Len(s) - Len(sub)) : MatchAt(s, sub, i)}
    IN  IF hits = {} THEN -1 ELSE Min(hits)

\* s.rfind(sub, 0, end): the highest index where sub occurs within s[0:end]
rfind(s, sub, end) ==
    LET hits == {i \in 0..(end - Len(sub)) : MatchAt(Slice(s, 0, end), sub, i)}
    IN  IF hits = {} THEN -1 ELSE Max(hits)

\* str.isspace for the characters of the model
IsSpace(c) == c \in {" ", "\n", "\t"}

\* s.lstrip()
LStrip(s) ==
    LET keep == {i \in 1..Len(s) : ~IsSpace(s[i])}
    IN  IF keep = {} THEN <<>> ELSE SubSeq(s, Min(keep), Len(s))

\* s.rstrip()
RStrip(s) ==
    LET keep == {i \in 1..Len(s) : ~IsSpace(s[i])}
    IN  IF keep = {} THEN <<>> ELSE SubSeq(s, 1, Max(keep))

\* s.strip()
strip(s) == RStrip(LStrip(s))

RECURSIVE split(_, _)
\* s.split(sep): the pieces between the occurrences of sep, scanned left to right
split(s, sep) ==
    LET i == find(s, sep)
    IN  IF i = -1 THEN <<s>>
        ELSE <<Slice(s, 0, i)>> \o split(SliceFrom(s, i + Len(sep)), sep)

RECURSIVE SplitWords(_)
\* s.split(): the maximal runs of non-whitespace characters, left to right
SplitWords(s) ==
    LET t == LStrip(s)
        spaces == {i \in 1..Len(t) : IsSpace(t[i])}
    IN  IF t = <<>> THEN <<>>
        ELSE IF spaces = {} THEN <<t>>
        ELSE <<SubSeq(t, 1, Min(spaces) - 1)>>
             \o SplitWords(SubSeq(t, Min(spaces), Len(t)))

RECURSIVE join(_, _)
\* sep.join(parts)
join(sep, parts) ==
    IF parts = <<>> THEN <<>>
    ELSE IF Len(parts) = 1 THEN parts[1]
    ELSE parts[1] \o sep \o join(sep, Tail(parts))

UpperLetters ==
    <<"A", "B", "C", "D", "E", "F", "G", "H", "I", "J", "K", "L", "M",
      "N", "O", "P", "Q", "R", "S", "T", "U", "V", "W", "X", "Y", "Z">>
LowerLetters ==
    <<"a", "b", "c", "d", "e", "f", "g", "h", "i", "j", "k", "l", "m",
      "n", "o", "p", "q", "r", "s", "t", "u", "v", "w", "x", "y", "z">>

LowerChar(c) ==
    IF \E i \in 1..Len(UpperLetters) : UpperLetters[i] = c
    THEN LowerLetters[CHOOSE i \in 1..Len(UpperLetters) : UpperLetters[i] = c]
    ELSE c

\* s.lower()
lower(s) == [i \in 1..Len(s) |-> LowerChar(s[i])]

----------------------------------------------------------------------------
(* parse_error *)

KwError == <<"E", "r", "r", "o", "r", ":">>
KwException == <<"E", "x", "c", "e", "p", "t", "i", "o", "n", ":">>
CtxCharacters == <<"C", "h", "a", "r", "a", "c", "t", "e", "r", "s">>
CtxFile == <<"F", "i", "l", "e">>

keywords == <<KwError, KwException>>

\* the body of `if loc != -1:`, lines 130-137
ErrorText(output, loc) ==
    LET startC == rfind(output, CtxCharacters, loc)
        startF == rfind(output, CtxFile, loc)
    IN  IF startC # -1 THEN SliceFrom(output, startC)
        ELSE IF startF # -1 THEN SliceFrom(output, startF)
        ELSE SliceFrom(output, loc)

RECURSIVE ParseErrorLoop(_, _)
\* `for k in keywords:` from the i-th keyword on
ParseErrorLoop(output, i) ==
    IF i > Len(keywords) THEN None
    ELSE LET loc == find(output, keywords[i])
         IN  IF loc # -1 THEN ErrorText(output, loc)
             ELSE ParseErrorLoop(output, i + 1)

parse_error(output) == ParseErrorLoop(output, 1)

----------------------------------------------------------------------------
(* run_ocaml_code *)

PromptMarker == <<"#", " ">>
NoMethodQuit ==
    <<"I", "t", " ", "h", "a", "s", " ", "n", "o", " ", "m", "e", "t", "h",
      "o", "d", " ", "q", "u", "i", "t">>
ImplementedWord == <<"i", "m", "p", "l", "e", "m", "e", "n", "t", "e", "d">>

NoRet == [kind |-> "none", exc |-> "", msg |-> "", value |-> <<>>,
          result |-> FALSE, method |-> ""]

\* `return value`
Return(value) == [NoRet EXCEPT !.kind = "return", !.value = value]

\* `raise exc(msg.format(value))`
Raise(exc, msg, value) ==
    [NoRet EXCEPT !.kind = "raise", !.exc = exc, !.msg = msg, !.value = value]

\* class UnimplementedException(OcamlError), class OcamlError(Exception)
IsOcamlError(exc) == exc \in {"OcamlError", "UnimplementedException"}

\* line 164: matches = [m.strip() for m in outs.split('# ')]
Matches(outs) ==
    LET parts == split(outs, PromptMarker)
    IN  [i \in 1..Len(parts) |-> strip(parts[i])]

\* ExpectedMatches without the segment of the quit command
ExpectedMatchesNoQuit(nfiles) == 1 + nfiles + 1

\* line 170
ExpectedMatches(nfiles) == 1 + nfiles + 2

\* ClassifyError with the tests of lines 185 and 188 in the other order
ClassifyErrorImplementedFirst(err) ==
    IF find(lower(err), ImplementedWord) # -1
    THEN Raise("UnimplementedException", "", err)
    ELSE IF find(err, NoMethodQuit) # -1
    THEN Raise("ValueError", "Incomplete Ocaml Expression", <<>>)
    ELSE Raise("OcamlError", "", err)

\* lines 185-191, for an err that is not None
ClassifyError(err) ==
    IF find(err, NoMethodQuit) # -1
    THEN Raise("ValueError", "Incomplete Ocaml Expression", <<>>)
    ELSE IF find(lower(err), ImplementedWord) # -1
    THEN Raise("UnimplementedException", "", err)
    ELSE Raise("OcamlError", "", err)

RECURSIVE ErrorLoop(_, _)
\* lines 180-193: `for output in matches:` from the i-th match on, then the return
ErrorLoop(matches, i) ==
    IF i > Len(matches) THEN Return(matches[Len(matches) - 1])
    ELSE LET err == parse_error(matches[i])
         IN  IF err = None THEN ErrorLoop(matches, i + 1)
             ELSE ClassifyError(err)

\* run_ocaml_code(code, files) where the child process prints outs, or never exits
run_ocaml_code(outs, nfiles) ==
    IF outs = TimedOut THEN Raise("TimeoutExpired", "", <<>>)
    ELSE LET matches == Matches(outs)
         IN  IF Len(matches) # ExpectedMatches(nfiles)
             THEN Raise("ValueError", "Couldn't evaluate code", matches[Len(matches)])
             ELSE ErrorLoop(matches, 1)

----------------------------------------------------------------------------
(* text normalization techniques and run_test *)

equivalent(text) == text

strip_whitespace(text) == strip(text)

\* normalize_whitespace splitting on the space character alone: text.split(' ')
normalize_whitespaceSpacesOnly(text) == join(<<" ">>, split(text, <<" ">>))

normalize_whitespace(text) == join(<<" ">>, SplitWords(text))

steps == <<"equivalent", "strip_whitespace", "normalize_whitespace">>

\* step(text) for the step of that __name__
ApplyStep(step, text) ==
    CASE step = "equivalent" -> equivalent(text)
      [] step = "strip_whitespace" -> strip_whitespace(text)
      [] step = "normalize_whitespace" -> normalize_whitespace(text)

\* StepLoop without the `break` of line 237: every step runs, the last one decides
StepLoopNoBreak(output, expected_out, i) ==
    LET method == steps[Len(steps)]
        result == ApplyStep(method, output) = ApplyStep(method, expected_out)
    IN  [NoRet EXCEPT !.kind = "return", !.value = output,
                      !.result = result, !.method = method]

RECURSIVE StepLoop(_, _, _)
\* lines 231-238: `for step in steps:` from the i-th step on, then the return
StepLoop(output, expected_out, i) ==
    LET method == steps[i]
        result == ApplyStep(method, output) = ApplyStep(method, expected_out)
    IN  IF result \/ i = Len(steps)
        THEN [NoRet EXCEPT !.kind = "return", !.value = output,
                           !.result = result, !.method = method]
        ELSE StepLoop(output, expected_out, i + 1)

\* lines 224-238 once run_ocaml_code has returned output
Compare(output, expected_out) == StepLoop(output, expected_out, 1)

\* run_test(code, expected_out, file) where the child process prints outs
run_test(outs, expected_out) ==
    LET r == run_ocaml_code(outs, 1)
    IN  IF r.kind = "raise" THEN r ELSE Compare(r.value, expected_out)

----------------------------------------------------------------------------
(* main: what the page holds and what the interpreter may print *)

\* the expected output of every test case of the page, as get_tests strips it
ExpectedOut == <<"a", " ", "b">>

\* a test case of a suite: the tuple (test, expected_output) of line 382
TestCase == [test |-> <<"f", " ", "1", ";", ";">>, expected_output |-> ExpectedOut]

\* stdout up to the prompt that reads the test: startup text, then the file's output
Preamble == <<"v", "\n">> \o PromptMarker \o <<"f", "\n">> \o PromptMarker

\* stdout from the prompt that reads #quit
QuitTail == <<"\n">> \o PromptMarker \o <<"\n">>

OutExact == Preamble \o ExpectedOut \o QuitTail
OutWrapped == Preamble \o <<"a", "\n", " ", "b">> \o QuitTail
OutWrong == Preamble \o <<"b">> \o QuitTail
OutUnimplemented ==
    Preamble \o KwException
    \o <<" ", "F", "a", "i", "l", "u", "r", "e", " ", "\"", "N", "o", "t", " ">>
    \o ImplementedWord \o <<"\"", ".">> \o QuitTail
OutError ==
    Preamble \o KwError
    \o <<" ", "U", "n", "b", "o", "u", "n", "d", " ", "v", "a", "l", "u", "e">>
    \o QuitTail
OutIncomplete == Preamble \o KwError \o <<" ">> \o NoMethodQuit \o QuitTail
\* the test prints the prompt marker itself: one segment too many
OutMalformed == Preamble \o <<"0", " ", "#", " ", "1">> \o QuitTail

\* what _run_ocaml_code can hand back for one test: a transcript, or no exit in time
ProcessOutcomes ==
    {OutExact, OutWrapped, OutWrong, OutUnimplemented, OutError, OutIncomplete,
     OutMalformed, TimedOut}

\* the suites of the page: line 352, suites numbered from 1
SuitesOf(lens) == [j \in 1..Len(lens) |-> <<j, [c \in 1..lens[j] |-> TestCase]>>]

\* the sequences over S of length lo..hi
SeqsOf(S, lo, hi) == UNION {[1..n -> S] : n \in lo..hi}

\* the lists over S of length lo..hi that name no element twice
ListsOf(S, lo, hi) ==
    {s \in SeqsOf(S, lo, hi) : \A a, b \in 1..Len(s) : a # b => s[a] # s[b]}

RECURSIVE SumLen(_)
\* sum(len(suite) for suite in suites)
SumLen(suites) ==
    IF suites = <<>> THEN 0 ELSE Len(Head(suites)) + SumLen(Tail(suites))

\* `x in list`
In(x, list) == \E i \in 1..Len(list) : list[i] = x

\* list[i] raises no IndexError
IndexOK(list, i) == -Len(list) <= i /\ i < Len(list)

\* list[i], negative i counting from the end
PyIndex(list, i) == IF i >= 0 THEN list[i + 1] ELSE list[Len(list) + i + 1]

\* run_test over every process outcome and expected output of the page, evaluated once
RunTestTable ==
    {<<outs, e, run_test(outs, e)>> : outs \in ProcessOutcomes, e \in {ExpectedOut}}

RunTestOf(outs, expected_out) ==
    (CHOOSE p \in RunTestTable : p[1] = outs /\ p[2] = expected_out)[3]

NoCall == [op |-> "", outs |-> <<>>, nfiles |-> 0, output |-> <<>>,
           expected_out |-> <<>>, j |-> 0, k |-> 0]

\* Handler with the clause of lines 398-402 doing `continue` as the one before it
HandlerErrorContinues(r) ==
    IF r.kind = "return" THEN "else"
    ELSE IF r.exc = "UnimplementedException" THEN "except UnimplementedException"
    ELSE IF r.exc = "ValueError" \/ IsOcamlError(r.exc) THEN "except ValueError"
    ELSE "uncaught"

\* Handler without the clause of lines 394-397
HandlerNoValueError(r) ==
    IF r.kind = "return" THEN "else"
    ELSE IF r.exc = "UnimplementedException" THEN "except UnimplementedException"
    ELSE IF IsOcamlError(r.exc) THEN "except OcamlError"
    ELSE "uncaught"

\* which clause of the try statement of lines 384-402 takes the outcome r of run_test
Handler(r) ==
    IF r.kind = "return" THEN "else"
    ELSE IF r.exc = "UnimplementedException" THEN "except UnimplementedException"
    ELSE IF r.exc = "ValueError" THEN "except ValueError"
    ELSE IF IsOcamlError(r.exc) THEN "except OcamlError"
    ELSE "uncaught"

----------------------------------------------------------------------------
(* main *)

Init ==
    /\ call = NoCall
    /\ ret = NoRet
    /\ \E lens \in SeqsOf(1..MaxCases, 1, MaxSuites) :
          /\ test_suites = SuitesOf(lens)
          /\ num_tests = SumLen([j \in 1..Len(lens) |-> SuitesOf(lens)[j][2]])
    /\ \E sel \in ListsOf(1..MaxSuites, 0, MaxSel), which \in {"use", "skip"},
          verbose \in BOOLEAN :
          /\ which = "skip" => sel # <<>>
          /\ args = [use_suites |-> IF which = "use" THEN sel ELSE <<>>,
                     skip_suites |-> IF which = "skip" THEN sel ELSE <<>>,
                     verbose |-> verbose]
    /\ num_failed = 0
    /\ num_skipped = 0
    /\ bound = FALSE
    /\ pc = "select"
    /\ si = 1
    /\ k = 0
    /\ events = [compared |-> 0, calls |-> 0]
    /\ exit_status = -1

\* an uncaught exception: Python prints the traceback and exits with status 1
Crash ==
    /\ pc' = "crash"
    /\ exit_status' = 1

\* lines 367-371: `if args.use_suites:`
SelectUse ==
    /\ pc = "select"
    /\ args.use_suites # <<>>
    /\ LET use == args.use_suites
           skipped_suites ==
               SelectSeq([i \in 1..Len(test_suites) |-> test_suites[i]],
                         LAMBDA p : ~In(p[1], use))
       IN  /\ num_skipped' = num_skipped
                 + SumLen([i \in 1..Len(skipped_suites) |-> skipped_suites[i][2]])
           /\ IF \A i \in 1..Len(use) : IndexOK(test_suites, use[i] - 1)
              THEN /\ test_suites' = [i \in 1..Len(use) |-> PyIndex(test_suites, use[i] - 1)]
                   /\ pc' = "loop"
                   /\ UNCHANGED exit_status
              ELSE /\ Crash
                   /\ UNCHANGED test_suites
    /\ UNCHANGED <<call, ret, args, num_tests, num_failed, bound, si, k, events>>

\* lines 372-376: `elif args.skip_suites:`
SelectSkip ==
    /\ pc = "select"
    /\ args.use_suites = <<>>
    /\ args.skip_suites # <<>>
    /\ LET skip == args.skip_suites
       IN  IF \A i \in 1..Len(skip) : IndexOK(test_suites, skip[i] - 1)
           THEN /\ num_skipped' = num_skipped
                      + SumLen([i \in 1..Len(skip) |-> PyIndex(test_suites, skip[i] - 1)[2]])
                /\ test_suites' = SelectSeq(test_suites, LAMBDA p : ~In(p[1], skip))
                /\ pc' = "loop"
                /\ UNCHANGED exit_status
           ELSE /\ Crash
                /\ UNCHANGED <<num_skipped, test_suites>>
    /\ UNCHANGED <<call, ret, args, num_tests, num_failed, bound, si, k, events>>

\* neither list given: every suite is run
SelectAll ==
    /\ pc = "select"
    /\ args.use_suites = <<>>
    /\ args.skip_suites = <<>>
    /\ pc' = "loop"
    /\ UNCHANGED <<call, ret, args, test_suites, num_tests, num_failed, num_skipped,
                   bound, si, k, events, exit_status>>

\* the suite the loop of line 379 is at, and its number
CurSuite == test_suites[si][2]
CurJ == test_suites[si][1]

\* `continue`, or the end of the loop body: the next case, else the next suite
NextCase ==
    IF k + 1 < Len(CurSuite)
    THEN /\ k' = k + 1
         /\ si' = si
    ELSE /\ k' = 0
         /\ si' = si + 1

\* `break` out of the loop of line 382
NextSuite ==
    /\ k' = 0
    /\ si' = si + 1

\* line 385: run_test(test, expected_output, file=FILE), the child printing outs
CallRunTest(outs) ==
    /\ pc = "loop"
    /\ si <= Len(test_suites)
    /\ call' = [NoCall EXCEPT !.op = "run_test", !.outs = outs, !.nfiles = 1,
                              !.expected_out = CurSuite[k + 1].expected_output,
                              !.j = CurJ, !.k = k]
    /\ ret' = RunTestOf(outs, CurSuite[k + 1].expected_output)
    /\ UNCHANGED <<args, test_suites, num_tests>>

\* lines 386-393
CaseUnimplemented ==
    \E outs \in ProcessOutcomes :
        /\ CallRunTest(outs)
        /\ Handler(ret') = "except UnimplementedException"
        /\ events' = [events EXCEPT !.calls = events.calls + 1]
        /\ IF args.verbose /\ ~bound
           THEN \* line 390 reads test_str: UnboundLocalError
                /\ Crash
                /\ UNCHANGED <<num_skipped, si, k>>
           ELSE /\ num_skipped' = num_skipped + (Len(CurSuite) - (k + 1))
                /\ IF ~bound
                   THEN \* line 392 reads function: UnboundLocalError
                        /\ Crash
                        /\ UNCHANGED <<si, k>>
                   ELSE /\ NextSuite
                        /\ UNCHANGED <<pc, exit_status>>
        /\ UNCHANGED <<num_failed, bound>>

\* lines 394-397
CaseValueError ==
    \E outs \in ProcessOutcomes :
        /\ CallRunTest(outs)
        /\ Handler(ret') = "except ValueError"
        /\ events' = [events EXCEPT !.calls = events.calls + 1]
        /\ NextCase
        /\ UNCHANGED <<num_failed, num_skipped, bound, pc, exit_status>>

\* lines 398-402
CaseOcamlError ==
    \E outs \in ProcessOutcomes :
        /\ CallRunTest(outs)
        /\ Handler(ret') = "except OcamlError"
        /\ events' = [events EXCEPT !.calls = events.calls + 1]
        /\ pc' = "exit"
        /\ exit_status' = 1
        /\ UNCHANGED <<num_failed, num_skipped, bound, si, k>>

\* an exception no clause names (TimeoutExpired, lines 104-108) leaves main
CaseUncaught ==
    \E outs \in ProcessOutcomes :
        /\ CallRunTest(outs)
        /\ Handler(ret') = "uncaught"
        /\ events' = [events EXCEPT !.calls = events.calls + 1]
        /\ Crash
        /\ UNCHANGED <<num_failed, num_skipped, bound, si, k>>

\* lines 403-419: run_test returned (it never returns None)
CaseCompared ==
    \E outs \in ProcessOutcomes :
        /\ CallRunTest(outs)
        /\ Handler(ret') = "else"
        /\ events' = [compared |-> events.compared + 1, calls |-> events.calls + 1]
        /\ bound' = TRUE
        /\ num_failed' = IF ret'.result = FALSE THEN num_failed + 1 ELSE num_failed
        /\ NextCase
        /\ UNCHANGED <<num_skipped, pc, exit_status>>

\* lines 422-432: 'Finished testing' and the summary; main returns
Finish ==
    /\ pc = "loop"
    /\ si > Len(test_suites)
    /\ pc' = "done"
    /\ exit_status' = 0
    /\ UNCHANGED <<call, ret, args, test_suites, num_tests, num_failed, num_skipped,
                   bound, si, k, events>>

Next ==
    \/ SelectUse
    \/ SelectSkip
    \/ SelectAll
    \/ CaseUnimplemented
    \/ CaseValueError
    \/ CaseOcamlError
    \/ CaseUncaught
    \/ CaseCompared
    \/ Finish

Spec == Init /\ [][Next]_vars

----------------------------------------------------------------------------
(* Properties of main *)

\* this step made a run_test call
Called == events'.calls = events.calls + 1

Aborted == pc \in {"exit", "crash"}

\* the position the case loop is at after the case at (si, k) alone is left
AtNextCase ==
    IF k + 1 < Len(CurSuite) THEN si' = si /\ k' = k + 1
    ELSE si' = si + 1 /\ k' = 0

\* C1: a case that yields Unimplemented never aborts the run: the rest of its
\* suite is left unrun and the loop stands at the first case of the next
\* selected suite (or the run finishes), wherever in the run the case occurs.
C1_UnimplementedSkipsSuite ==
    (call.op = "run_test" /\ ret.exc = "UnimplementedException")
        => /\ pc \in {"loop", "done"}
           /\ exit_status \in {-1, 0}
           /\ k = 0
           /\ si > 1
           /\ test_suites[si - 1][1] = call.j

\* C2: a case that yields an OcamlError other than Unimplemented, or whose
\* child process times out, aborts the whole run: the process ends there with
\* exit status 1, no step follows (no later case is started, 'Finished
\* testing' is not reached), and only a completed run ends with status 0.
C2_FatalAborts ==
    [][/\ (Called /\ ret'.exc \in {"OcamlError", "TimeoutExpired"})
            => (pc' \in {"exit", "crash"} /\ exit_status' = 1)
       /\ ~Aborted
       /\ (pc' = "done") = (exit_status' = 0)]_vars

\* C2 witness: a timeout or an error ended the run while cases were still to run
C2_Witness ==
    /\ ret.exc \in {"OcamlError", "TimeoutExpired"}
    /\ Aborted
    /\ events.calls >= 2
    /\ si < Len(test_suites)

C4_AscendingOrder ==
    [][(Called /\ call.op = "run_test")
          => \/ call'.j > call.j
             \/ (call'.j = call.j /\ call'.k > call.k)]_vars

\* C5: at the end of a run that was not aborted the totals account for every
\* test case found: the number of tests reported run, num_tests - num_skipped,
\* is the number of cases compared, and the failed total is within it.
C5_TotalsAccount ==
    pc = "done"
        => /\ num_tests - num_skipped = events.compared
           /\ num_failed <= events.compared

----------------------------------------------------------------------------
(* The functions on their own: run_ocaml_code, parse_error, the comparison *)

RECURSIVE Flatten(_)
\* ''.join(pieces)
Flatten(pieces) ==
    IF pieces = <<>> THEN <<>> ELSE Head(pieces) \o Flatten(Tail(pieces))

\* main is not running
MainIdle ==
    /\ args = [use_suites |-> <<>>, skip_suites |-> <<>>, verbose |-> FALSE]
    /\ test_suites = <<>>
    /\ num_tests = 0
    /\ num_failed = 0
    /\ num_skipped = 0
    /\ bound = FALSE
    /\ pc = "idle"
    /\ si = 1
    /\ k = 0
    /\ events = [compared |-> 0, calls |-> 0]
    /\ exit_status = -1

\* what the transcripts given to run_ocaml_code are made of
ReplPieces ==
    {PromptMarker,
     <<"o", "k", "\n">>,
     KwError \o <<" ", "x">>,
     KwException \o <<" ", "N", "o", "t", " ", "I", "m", "p", "l", "e", "m", "e", "n", "t", "e", "d", ".">>,
     KwError \o <<" ">> \o NoMethodQuit,
     <<" ">> \o ImplementedWord}

InitRepl ==
    /\ \E p \in SeqsOf(ReplPieces, 0, MaxPieces), f \in 0..MaxFiles :
          call = [NoCall EXCEPT !.op = "run_ocaml_code", !.outs = Flatten(p), !.nfiles = f]
    /\ ret = NoRet
    /\ MainIdle

\* run_ocaml_code(code, files) runs to its return or raise
CallRunOcamlCode ==
    /\ call.op = "run_ocaml_code"
    /\ ret = NoRet
    /\ ret' = run_ocaml_code(call.outs, call.nfiles)
    /\ UNCHANGED <<call, mainVars>>

SpecRepl == InitRepl /\ [][CallRunOcamlCode]_vars

\* what the segments given to parse_error are made of
ParsePieces == {KwError, KwException, CtxCharacters, CtxFile, <<" ", "x">>}

InitParse ==
    /\ \E p \in SeqsOf(ParsePieces, 0, MaxPieces) :
          call = [NoCall EXCEPT !.op = "parse_error", !.output = Flatten(p)]
    /\ ret = NoRet
    /\ MainIdle

\* parse_error(output) runs to its return
CallParseError ==
    /\ call.op = "parse_error"
    /\ ret = NoRet
    /\ ret' = Return(parse_error(call.output))
    /\ UNCHANGED <<call, mainVars>>

SpecParse == InitParse /\ [][CallParseError]_vars

\* the characters of the compared strings
Alphabet == {"a", "b", " ", "\n"}

\* the line-wrapped list of the scenario: the expected and the actual output
ScenarioExpected ==
    <<"-", " ", ":", " ", "i", "n", "t", " ", "l", "i", "s", "t", " ", "=", "\n",
      "[", "1", ";", " ", "2", ";", " ", "3", "]">>
ScenarioActual ==
    <<"-", " ", ":", " ", "i", "n", "t", " ", "l", "i", "s", "t", " ", "=", "\n",
      "[", "1", ";", "\n", " ", "2", ";", " ", "3", "]">>

CompareInputs == SeqsOf(Alphabet, 0, MaxLen) \cup {ScenarioExpected, ScenarioActual}

InitCompare ==
    /\ \E a \in CompareInputs, e \in CompareInputs :
          call = [NoCall EXCEPT !.op = "run_test", !.output = a, !.expected_out = e]
    /\ ret = NoRet
    /\ MainIdle

\* run_test from line 231 on, run_ocaml_code having returned call.output
CallCompare ==
    /\ call.op = "run_test"
    /\ ret = NoRet
    /\ ret' = Compare(call.output, call.expected_out)
    /\ UNCHANGED <<call, mainVars>>

SpecCompare == InitCompare /\ [][CallCompare]_vars

----------------------------------------------------------------------------
(* Properties of run_ocaml_code *)

\* how many times the prompt marker '# ' stands in s
CountPrompts(s) ==
    Cardinality({i \in 1..(Len(s) - 1) : s[i] = "#" /\ s[i + 1] = " "})

Malformed(r) == r.kind = "raise" /\ r.exc = "ValueError" /\ r.msg = "Couldn't evaluate code"

\* C6: for every stdout and every number F of preload files, run_ocaml_code
\* fails with the malformed-transcript error exactly when splitting stdout on
\* '# ' does not give 1 + F + 2 segments; every other outcome (a returned
\* output, a classification error) comes from a transcript of 1 + F + 2 segments.
C6_SegmentCount ==
    ret.kind # "none"
        => (Malformed(ret) <=> CountPrompts(call.outs) + 1 # 1 + call.nfiles + 2)

\* C6 witness: an output returned from a transcript of one preload file and four segments
C6_Witness ==
    /\ ret.kind = "return"
    /\ call.nfiles = 1
    /\ CountPrompts(call.outs) = 3
    /\ ret.value # <<>>

\* a segment holds one of the two markers
HasMarker(seg) == find(seg, KwError) # -1 \/ find(seg, KwException) # -1

Contains(text, sub) == \E i \in 0..Len(text) : MatchAt(text, sub, i)

\* C7: for a transcript with the expected segment count the first segment, in
\* submission order, that holds 'Error:' or 'Exception:' decides the outcome:
\* ValueError (incomplete expression) if its extracted message holds 'It has
\* no method quit', else UnimplementedException if the message holds
\* 'implemented' in any letter case, else OcamlError; with no marker in any
\* segment the command's own trimmed segment, the second-to-last, is returned.
C7_FirstMarkedSegmentDecides ==
    (ret.kind # "none" /\ ~Malformed(ret))
        => LET raw == split(call.outs, PromptMarker)
               segs == [i \in 1..Len(raw) |-> strip(raw[i])]
               marked == {i \in 1..Len(segs) : HasMarker(segs[i])}
           IN  IF marked = {}
               THEN ret = Return(strip(raw[Len(raw) - 1]))
               ELSE LET message == parse_error(segs[Min(marked)])
                    IN  /\ ret.kind = "raise"
                        /\ ret.exc =
                              IF Contains(message, NoMethodQuit) THEN "ValueError"
                              ELSE IF Contains(lower(message), ImplementedWord)
                                   THEN "UnimplementedException"
                              ELSE "OcamlError"
                        /\ ret.exc = "ValueError" => ret.msg = "Incomplete Ocaml Expression"
                        /\ ret.exc # "ValueError" => ret.value = message

\* C7 witness: Unimplemented decided by the first marked segment, which a
\* later segment with an 'Error:' of its own follows
C7_Witness ==
    /\ ret.exc = "UnimplementedException"
    /\ LET segs == Matches(call.outs)
       IN  \E i, j \in 1..Len(segs) :
              /\ i < j
              /\ \A h \in 1..(i - 1) : ~HasMarker(segs[h])
              /\ Contains(segs[i], KwException)
              /\ Contains(segs[j], KwError)
              /\ ~Contains(lower(segs[j]), ImplementedWord)

----------------------------------------------------------------------------
(* Properties of the comparison *)

\* text without its whitespace characters
NonWhitespace(text) == SelectSeq(text, LAMBDA c : ~IsSpace(c))

\* a with "\n" put in before position p
WrapAt(a, p) == SubSeq(a, 1, p - 1) \o <<"\n">> \o SubSeq(a, p, Len(a))

\* the spaces of text that stand between two non-whitespace characters
InnerSpaces(text) ==
    {p \in 2..(Len(text) - 1) :
        text[p] = " " /\ ~IsSpace(text[p - 1]) /\ ~IsSpace(text[p + 1])}

\* C8: the comparison tries Exact, Trimmed, Whitespace-normalized in that
\* order on both strings and stops at the first that makes them equal: it
\* returns (True, output, that strategy's name), or (False, output,
\* 'normalize_whitespace') when none does.  An output that is the expected
\* text wrapped at one of its inner spaces (newline, then the space) passes
\* with Whitespace-normalized and with neither Exact nor Trimmed.
C8_FirstMatchingStrategy ==
    ret.kind # "none"
        => LET a == call.output
               e == call.expected_out
               exact == a = e
               trimmed == strip(a) = strip(e)
               normalized == normalize_whitespace(a) = normalize_whitespace(e)
           IN  /\ ret.kind = "return"
               /\ ret.value = a
               /\ ret.result = (exact \/ trimmed \/ normalized)
               /\ ret.method = IF exact THEN "equivalent"
                               ELSE IF trimmed THEN "strip_whitespace"
                               ELSE "normalize_whitespace"
               /\ (\E p \in InnerSpaces(e) : a = WrapAt(e, p))
                     => ret.result /\ ret.method = "normalize_whitespace"
                        /\ ~exact /\ ~trimmed

\* C8 witness: the line-wrapped list of the scenario passed, Whitespace-normalized
C8_Witness ==
    /\ call.output = ScenarioActual
    /\ call.expected_out = ScenarioExpected
    /\ ret.result
    /\ ret.method = "normalize_whitespace"

\* C9 as stated: strings that differ only in whitespace (internal, leading,
\* trailing) compare equal at Whitespace-normalized or earlier, and a
\* successful comparison never equates strings of different non-whitespace
\* content.
C9_WhitespaceOnlyDifference ==
    ret.kind # "none"
        => LET a == call.output
               e == call.expected_out
           IN  /\ NonWhitespace(a) = NonWhitespace(e)
                     => ret.result /\ normalize_whitespace(a) = normalize_whitespace(e)
               /\ ret.result => NonWhitespace(a) = NonWhitespace(e)

RECURSIVE SameButRuns(_, _)
\* a and b are the same text but for the length and the characters of their
\* whitespace runs: where one has whitespace, so has the other
SameButRuns(a, b) ==
    IF a = <<>> \/ b = <<>> THEN a = b
    ELSE IF IsSpace(Head(a)) /\ IsSpace(Head(b)) THEN SameButRuns(LStrip(a), LStrip(b))
    ELSE IF IsSpace(Head(a)) \/ IsSpace(Head(b)) THEN FALSE
    ELSE Head(a) = Head(b) /\ SameButRuns(Tail(a), Tail(b))

\* C9 amended: strings that differ only in the length and the characters of
\* whitespace runs both of them have, and in leading and trailing whitespace,
\* compare equal at Whitespace-normalized or earlier; and a successful
\* comparison never equates strings of different non-whitespace content.
C9_WhitespaceRunsDifference ==
    ret.kind # "none"
        => LET a == call.output
               e == call.expected_out
           IN  /\ SameButRuns(strip(a), strip(e))
                     => ret.result /\ normalize_whitespace(a) = normalize_whitespace(e)
               /\ ret.result => NonWhitespace(a) = NonWhitespace(e)

\* C9 witness: two strings equal only once their whitespace runs are collapsed
C9_Witness ==
    /\ ret.result
    /\ ret.method = "normalize_whitespace"
    /\ call.output # call.expected_out
    /\ strip(call.output) # strip(call.expected_out)
    /\ SameButRuns(strip(call.output), strip(call.expected_out))
    /\ \E i \in 1..Len(call.output) : call.output[i] = "\n"

----------------------------------------------------------------------------
(* Properties of parse_error *)

\* C10: parse_error picks the marker by position: of the occurrences of
\* 'Error:' and 'Exception:' the one earliest in the segment gives the
\* message, also when 'Exception:' stands before 'Error:'; the result is None
\* exactly when neither marker occurs.
C10_EarliestMarkerWins ==
    ret.kind # "none"
        => LET locs == {find(call.output, KwError), find(call.output, KwException)} \ {-1}
           IN  IF locs = {} THEN ret.value = None
               ELSE ret.value = ErrorText(call.output, Min(locs))

\* the start positions of the occurrences of sub that lie within text[0:loc]
StartsBefore(text, sub, loc) ==
    {i \in 0..(loc - Len(sub)) : MatchAt(text, sub, i)}

\* C11: with a marker found at position loc, the message parse_error returns
\* starts at the nearest context marker before loc, the greatest start
\* position before loc of an occurrence of 'Characters' or of 'File', and runs
\* to the end of the segment; with neither before loc it starts at loc.
C11_NearestContextMarker ==
    (ret.kind # "none" /\ ret.value # None)
        => LET output == call.output
               loc == IF find(output, KwError) # -1 THEN find(output, KwError)
                      ELSE find(output, KwException)
               context == StartsBefore(output, CtxCharacters, loc)
                          \cup StartsBefore(output, CtxFile, loc)
           IN  ret.value = IF context = {} THEN SliceFrom(output, loc)
                           ELSE SliceFrom(output, Max(context))

====
